---- MODULE Spec2Model ----
(***************************************************************************)
(* Model of the opus_gapless chunk transcoder (src/chunk_transcoder.cpp)   *)
(* and of the gap-compensating Ogg/Opus encoder it drives                  *)
(* (src/encoder.cpp).                                                      *)
(*                                                                         *)
(* Sample memory is modelled at float granularity.  The float with         *)
(* channel c of the input sample with global index g carries the value     *)
(* g * channels + c, so that two floats are equal exactly when they are    *)
(* the same float of the input stream.  A float array is a run list: a     *)
(* sequence of runs [k, v, n], where a run of kind "real" stands for the   *)
(* n consecutive stream floats v, v+1, .., v+n-1 and a run of any other    *)
(* kind for n floats of that kind ("zero": 0.0f, "synth": produced by the  *)
(* linear predictor, "rev": input floats in reversed order, "uninit":      *)
(* never written).  Run lists are kept normalised (maximal runs), so two  *)
(* arrays hold the same floats exactly when their run lists are equal.     *)
(*                                                                         *)
(* Durations (Settings::m_length, Settings::m_overlap) are floats in       *)
(* seconds in the source; the model holds them as whole multiples of       *)
(* 1/48000 s, and the float product with the rate followed by the          *)
(* conversion to size_t is the truncating division below.                  *)
(***************************************************************************)
EXTENDS Integers, Naturals, Sequences, FiniteSets, TLC

\* ------------------------------------------------------------------ bounds
MaxLength == 4
MaxOverlap == 2
MaxInput == 12
MaxOffset == 5
MaxCalls == 16

\* --------------------------------------------------------------- run lists
Max(a, b) == IF a >= b THEN a ELSE b
Min(a, b) == IF a <= b THEN a ELSE b

Run(k, v, n) == [k |-> k, v |-> v, n |-> n]

\* the floats g*ch .. of n whole samples starting at global sample g
RealRuns(g, n, ch) == IF n <= 0 THEN <<>> ELSE <<Run("real", g * ch, n * ch)>>

\* n floats of a non-input kind
KindRuns(k, n) == IF n <= 0 THEN <<>> ELSE <<Run(k, 0, n)>>

RECURSIVE RunLen(_)
RunLen(rs) == IF rs = <<>> THEN 0 ELSE Head(rs).n + RunLen(Tail(rs))

Joins(a, b) == a.k = b.k /\ (a.k = "real" => a.v + a.n = b.v)

RECURSIVE Norm(_)
Norm(rs) ==
    IF Len(rs) < 2 THEN rs
    ELSE IF Joins(rs[1], rs[2])
         THEN Norm(<<Run(rs[1].k, rs[1].v, rs[1].n + rs[2].n)>> \o Tail(Tail(rs)))
         ELSE <<rs[1]>> \o Norm(Tail(rs))

RECURSIVE TakeRuns(_, _)
TakeRuns(rs, c) ==
    IF c <= 0 \/ rs = <<>> THEN <<>>
    ELSE IF Head(rs).n <= c
         THEN <<Head(rs)>> \o TakeRuns(Tail(rs), c - Head(rs).n)
         ELSE <<Run(Head(rs).k, Head(rs).v, c)>>

RECURSIVE DropRuns(_, _)
DropRuns(rs, c) ==
    IF c <= 0 \/ rs = <<>> THEN rs
    ELSE IF Head(rs).n <= c
         THEN DropRuns(Tail(rs), c - Head(rs).n)
         ELSE <<Run(Head(rs).k,
                    IF Head(rs).k = "real" THEN Head(rs).v + c ELSE 0,
                    Head(rs).n - c)>> \o Tail(rs)

\* the floats [from, to) of an array
SliceRuns(rs, from, to) == TakeRuns(DropRuns(rs, from), to - from)

\* the array after writing the floats `data` at float index pos; floats
\* that would land past the end of the array are not part of the array
WriteRuns(rs, pos, data) ==
    TakeRuns(Norm(TakeRuns(rs, pos) \o data \o DropRuns(rs, pos + RunLen(data))),
             RunLen(rs))

\* ---------------------------------------------------------------- Settings
VARIABLES settings

\* the rates drawn for the model
Rates == {24000, 48000}

length_samples(s) == (s.m_length * (s.m_rate \div 1000)) \div 48
overlap_samples(s) == (s.m_overlap * (s.m_rate \div 1000)) \div 48
\* mutant: room for one overlap only
total_length_samples_single(s) == length_samples(s) + overlap_samples(s)

total_length_samples(s) == length_samples(s) + 2 * overlap_samples(s)

\* mutant: the start offset without the clamp at 0
offs_for_block_idx_samples_noclamp(s, i) ==
    (length_samples(s) + overlap_samples(s)) * i - overlap_samples(s)

\* (int64(m_length * m_rate) + int64(m_overlap * m_rate)) * idx - int64(m_overlap
\* * m_rate) is evaluated in 64-bit unsigned arithmetic and converted back to
\* int64 before the max: for idx = 0 it is the negative number -O.
offs_for_block_idx_samples(s, i) ==
    Max((length_samples(s) + overlap_samples(s)) * i - overlap_samples(s), 0)

\* mutant: the end offset of the previous block
offs_end_for_block_idx_samples_prev(s, i) ==
    Max((length_samples(s) + overlap_samples(s)) * i, 0)

offs_end_for_block_idx_samples(s, i) ==
    Max((length_samples(s) + overlap_samples(s)) * (i + 1), 0)

\* the decimal digits std::to_string writes for a size_t, most significant first
RECURSIVE to_string(_)
to_string(x) == IF x < 10 THEN <<x>> ELSE Append(to_string(x \div 10), x % 10)

\* ----------------------------------------------------------------- Encoder
RAW_BUF_SIZE == 2048
LPC_BUF_SIZE == 4096

frame_size(rate) == (20 * rate) \div 1000

\* OPUS_GET_LOOKAHEAD of an OPUS_APPLICATION_AUDIO encoder: 2.5 ms plus the
\* 4 ms delay compensation (312 samples at 48000 Hz)
pre_skip(rate) == rate \div 400 + rate \div 250

\* LinearPredictiveCoder::extract_coefficients followed by predict: n floats
\* extrapolated from the source window src.  A window without signal (empty
\* or all zeros) stops the Levinson recursion at once, all coefficients are
\* 0 and the extrapolation is silence.
lpc_predict(src, n) ==
    IF \A i \in 1..Len(src) : src[i].k = "zero"
    THEN KindRuns("zero", n) ELSE KindRuns("synth", n)

\* std::reverse over a float range: zeros stay zeros, anything else is input
\* in reversed order
ReverseRuns(rs) ==
    Norm([i \in 1..Len(rs) |->
            LET r == rs[Len(rs) + 1 - i]
            IN  Run(IF r.k = "real" THEN "rev" ELSE r.k, 0, r.n)])

\* Encoder::Impl::Impl: the muxer is constructed in the initialiser list and
\* writes the stream header at once.  window and granule_offset are not fields of
\* the source: window records the source window of the last extrapolation of
\* a tail, granule_offset the constructor argument, lpc_hi the end of the
\* highest range of floats of lpc_buf that encode_frame has read or written,
\* tail_ptr the highest value lpc_buf_ptr had when a tail began.
EncoderImpl(tags, granule_offset, channels, rate) ==
    [granule_mul     |-> 48000 \div rate,
     head            |-> [pre_skip |-> (48000 \div rate) * (frame_size(rate) + pre_skip(rate)),
                          tags |-> tags, channels |-> channels, rate |-> rate],
     frames          |-> <<>>,
     buf             |-> KindRuns("uninit", RAW_BUF_SIZE),
     lpc_buf         |-> KindRuns("uninit", LPC_BUF_SIZE),
     buf_ptr         |-> 0,
     lpc_buf_ptr     |-> 0,
     granule         |-> granule_offset,
     granule_offset  |-> granule_offset,
     final_padding   |-> pre_skip(rate),
     channels        |-> channels,
     rate            |-> rate,
     current_bitrate |-> 0,
     n_set_bitrate   |-> 0,
     bitrate_arg     |-> 0,
     lpc_hi          |-> 0,
     tail_ptr        |-> 0,
     forward         |-> "none",
     first           |-> TRUE,
     window          |-> <<>>,
     fault           |-> "none"]

\* OpusEncoderContainer::bitrate: opus_encoder_ctl returns an error for a
\* bitrate that is not positive, and the error is thrown
bitrate_accepted(b) == b > 0

\* mutant: the bitrate is forwarded by every call
bitrate_always(e, b) ==
    IF bitrate_accepted(b)
    THEN [e EXCEPT !.current_bitrate = b, !.n_set_bitrate = @ + 1,
                   !.bitrate_arg = b, !.forward = "ok"]
    ELSE [e EXCEPT !.bitrate_arg = b, !.forward = "error"]

\* Encoder::Impl::bitrate.  bitrate_arg and forward are not fields of the
\* source: they record the argument of the call and whether it was forwarded
\* to the Opus encoder ("ok", or "error" when the forward threw) or not
\* ("none"); n_set_bitrate counts the forwards that succeeded.
bitrate(e, b) ==
    IF b /= e.current_bitrate
    THEN IF bitrate_accepted(b)
         THEN [e EXCEPT !.current_bitrate = b, !.n_set_bitrate = @ + 1,
                        !.bitrate_arg = b, !.forward = "ok"]
         ELSE [e EXCEPT !.bitrate_arg = b, !.forward = "error"]
    ELSE [e EXCEPT !.bitrate_arg = b, !.forward = "none"]

\* the first fault hit stays
Faulted(e, cond, what) ==
    IF e.fault = "none" /\ cond THEN [e EXCEPT !.fault = what] ELSE e

\* lead-in, lines 414-416: lpc_buf zeroed over two frames, the source copied
\* to its head and the first frame reversed
lead_in_reversed(b, src, n_src, fs, ch) ==
    WriteRuns(b, 0,
        ReverseRuns(
            Norm(TakeRuns(src, n_src * ch) \o KindRuns("zero", (fs - n_src) * ch)))
        \o KindRuns("zero", fs * ch))

\* lead-in, lines 420-427: the upper frame of lpc_buf predicted from the
\* second half of the reversed frame, then reversed
lead_in_predicted(b, fs, ch) ==
    WriteRuns(b, fs * ch,
        ReverseRuns(
            lpc_predict(SliceRuns(b, (fs \div 2) * ch, 2 * (fs \div 2) * ch), fs * ch)))

\* the part of encode_frame that synthesises the lead-in frame into the upper
\* half of lpc_buf (lines 402-427)
lead_in(e, src, n_src) ==
    Faulted(
        [e EXCEPT !.first = FALSE,
                  !.lpc_hi = Max(@, 2 * frame_size(e.rate) * e.channels),
                  !.lpc_buf = lead_in_predicted(
                                  lead_in_reversed(@, src, n_src,
                                                   frame_size(e.rate), e.channels),
                                  frame_size(e.rate), e.channels)],
        2 * frame_size(e.rate) * e.channels > LPC_BUF_SIZE, "lpc_buf overrun")

\* tail, lines 439-441: the samples appended to lpc_buf
tail_staged(e, src, n_src) ==
    [e EXCEPT !.lpc_buf = WriteRuns(@, e.lpc_buf_ptr * e.channels,
                                    TakeRuns(src, n_src * e.channels)),
              !.lpc_hi = Max(@, (e.lpc_buf_ptr + n_src) * e.channels),
              !.tail_ptr = Max(@, e.lpc_buf_ptr),
              !.lpc_buf_ptr = @ + n_src]

\* tail, lines 444-452: the rest of the frame predicted from the last
\* min(frame_size / 2, lpc_buf_ptr) staged samples
tail_predicted(e, n_src) ==
    LET ch == e.channels
        n_lpc_src == Min(frame_size(e.rate) \div 2, e.lpc_buf_ptr)
        n_lpc_tar == frame_size(e.rate) - n_src
    IN  Faulted(
            [e EXCEPT
               !.lpc_hi = Max(@, (e.lpc_buf_ptr + n_lpc_tar) * ch),
               !.window = SliceRuns(e.lpc_buf, (e.lpc_buf_ptr - n_lpc_src) * ch,
                                    e.lpc_buf_ptr * ch),
               !.lpc_buf = WriteRuns(@, e.lpc_buf_ptr * ch,
                              lpc_predict(
                                  SliceRuns(e.lpc_buf, (e.lpc_buf_ptr - n_lpc_src) * ch,
                                            e.lpc_buf_ptr * ch),
                                  n_lpc_tar * ch))],
            (e.lpc_buf_ptr + n_lpc_tar) * ch > LPC_BUF_SIZE, "lpc_buf overrun")

\* mutant: the granule is not advanced over the padding
tail_granule_none(e, n_src) == e

\* tail, lines 457-459: the granule advanced over the padding that is decoded
tail_granule(e, n_src) ==
    [e EXCEPT
       !.granule = @ + Min(e.final_padding, frame_size(e.rate) - n_src),
       !.final_padding = @ - Min(e.final_padding, frame_size(e.rate) - n_src)]

\* lines 467-477: the frame cached in lpc_buf when it is the last of a
\* sequence, encoded and written to the muxer
frame_written(e, src, n_real, last_in_seq, flush, lead) ==
    [e EXCEPT
       !.lpc_buf = IF last_in_seq
                   THEN WriteRuns(@, 0, TakeRuns(src, frame_size(e.rate) * e.channels))
                   ELSE @,
       !.lpc_buf_ptr = IF last_in_seq THEN frame_size(e.rate) ELSE @,
       !.lpc_hi = IF last_in_seq THEN Max(@, frame_size(e.rate) * e.channels) ELSE @,
       !.frames = Append(@, [last    |-> flush,
                             granule |-> e.granule * e.granule_mul,
                             pcm     |-> TakeRuns(src, frame_size(e.rate) * e.channels),
                             lead_in |-> lead,
                             n_real  |-> n_real,
                             window  |-> IF n_real < frame_size(e.rate) /\ ~lead
                                         THEN e.window ELSE <<>>,
                             last_in_seq |-> last_in_seq])]

\* the padded frame of a tail starts where the new samples were staged
tail_written(e, n_src, last_in_seq, flush) ==
    frame_written(e,
        SliceRuns(e.lpc_buf, (e.lpc_buf_ptr - n_src) * e.channels,
                  (e.lpc_buf_ptr - n_src + frame_size(e.rate)) * e.channels),
        n_src, last_in_seq, flush, FALSE)

\* encode_frame from "granule += n_src" on (lines 431-477)
encode_frame_tail(e, src, n_src, last_in_seq, flush, lead) ==
    IF n_src < frame_size(e.rate)
    THEN tail_written(
             tail_granule(
                 tail_predicted(
                     tail_staged([e EXCEPT !.granule = @ + n_src], src, n_src),
                     n_src),
                 n_src),
             n_src, last_in_seq, flush)
    ELSE frame_written(
             Faulted([e EXCEPT !.granule = @ + n_src],
                     n_src > frame_size(e.rate), "assert n_src <= fs"),
             src, IF lead THEN 0 ELSE frame_size(e.rate), last_in_seq, flush, lead)

\* the recursive call of line 428 on the synthesised frame
lead_in_written(e) ==
    encode_frame_tail(e,
        SliceRuns(e.lpc_buf, frame_size(e.rate) * e.channels,
                  2 * frame_size(e.rate) * e.channels),
        frame_size(e.rate), FALSE, FALSE, TRUE)

\* Encoder::Impl::encode_frame
encode_frame(e, src, n_src, last_in_seq, flush) ==
    encode_frame_tail(
        IF e.first THEN lead_in_written(lead_in(e, src, n_src)) ELSE e,
        src, n_src, last_in_seq, flush, FALSE)

\* encode, lines 499-501: n_src (not n_read) samples copied behind the
\* staged ones.  buf is followed by lpc_buf in Impl: floats written past the
\* end of buf land at the head of lpc_buf, floats written past the end of
\* lpc_buf land in the members behind it (granule_mul first).
encode_stored(e, src, n_src, n_read) ==
    Faulted(
        Faulted(
            [e EXCEPT !.buf = WriteRuns(@, e.buf_ptr * e.channels,
                                        TakeRuns(src, n_src * e.channels)),
                      !.lpc_buf = WriteRuns(@, 0,
                                      DropRuns(TakeRuns(src, n_src * e.channels),
                                               RAW_BUF_SIZE - e.buf_ptr * e.channels)),
                      !.buf_ptr = @ + n_read],
            (e.buf_ptr + n_src) * e.channels > RAW_BUF_SIZE + LPC_BUF_SIZE,
            "member overrun"),
        (e.buf_ptr + n_src) * e.channels > RAW_BUF_SIZE, "buf overrun")

\* mutant: the staging buffer is not emptied after it was encoded
encode_flushed_full(e, n_src) ==
    IF e.buf_ptr = frame_size(e.rate)
    THEN encode_frame(e, e.buf, frame_size(e.rate), n_src < frame_size(e.rate), FALSE)
    ELSE e

\* encode, lines 502-505: a full staging buffer is encoded
encode_flushed(e, n_src) ==
    IF e.buf_ptr = frame_size(e.rate)
    THEN [encode_frame(e, e.buf, frame_size(e.rate), n_src < frame_size(e.rate), FALSE)
            EXCEPT !.buf_ptr = 0]
    ELSE e

\* the encoder after one pass through the body of the while loop of encode
\* that reads n_read samples
encode_pass(e, src, n_src, n_read) ==
    IF n_read = frame_size(e.rate)
    THEN encode_frame(e, src, frame_size(e.rate), n_src < frame_size(e.rate), FALSE)
    ELSE encode_flushed(encode_stored(e, src, n_src, n_read), n_src)

\* one pass through the body of the while loop of
\* Encoder::Impl::encode(const float *, size_t), on st = [e, src, n_src]
encode_step(st) ==
    IF st.n_src <= 0 THEN st
    ELSE [e     |-> encode_pass(st.e, st.src, st.n_src,
                                Min(frame_size(st.e.rate) - st.e.buf_ptr, st.n_src)),
          src   |-> DropRuns(st.src, st.e.channels *
                                Min(frame_size(st.e.rate) - st.e.buf_ptr, st.n_src)),
          n_src |-> st.n_src - Min(frame_size(st.e.rate) - st.e.buf_ptr, st.n_src)]

\* k passes through the while loop: the first half of them, then the rest
RECURSIVE encode_iter(_, _)
encode_iter(st, k) ==
    IF k <= 1 THEN encode_step(st)
    ELSE LET half == encode_iter(st, k \div 2)
         IN  IF half.n_src > 0 THEN encode_iter(half, k - k \div 2) ELSE half

\* Encoder::Impl::encode(const float *, size_t): the loop runs until n_src is
\* 0, which takes at most n_src / frame_size + 2 passes
encode(e, src, n_src) ==
    encode_iter([e |-> e, src |-> src, n_src |-> n_src],
                n_src \div frame_size(e.rate) + 2).e

\* Encoder::encode behind the call of bitrate, which may have thrown
encode_forwarded(e, src, n_src) ==
    IF e.forward = "error" THEN e ELSE encode(e, src, n_src)

\* Encoder::encode(const float *, size_t, size_t)
Encoder_encode(e, src, n_src, b) == encode_forwarded(bitrate(e, b), src, n_src)

\* encode(const int16_t *), lines 527-533: n_read samples converted to float
\* (scaled by INT16_SCALE) behind the staged ones
encode16_stored(e, src, n_read) ==
    [e EXCEPT !.buf = WriteRuns(@, e.buf_ptr * e.channels,
                                TakeRuns(src, n_read * e.channels)),
              !.buf_ptr = @ + n_read]

\* encode(const int16_t *), lines 539-543: a full staging buffer is encoded;
\* n_src is what is left of the input behind the samples just staged
encode16_flushed(e, n_src) ==
    IF e.buf_ptr = frame_size(e.rate)
    THEN [encode_frame(e, e.buf, frame_size(e.rate), n_src < frame_size(e.rate), FALSE)
            EXCEPT !.buf_ptr = 0]
    ELSE e

\* one pass through the body of the while loop of
\* Encoder::Impl::encode(const int16_t *, size_t), on st = [e, src, n_src]
encode16_step(st) ==
    IF st.n_src <= 0 THEN st
    ELSE [e     |-> encode16_flushed(
                        encode16_stored(st.e, st.src,
                            Min(frame_size(st.e.rate) - st.e.buf_ptr, st.n_src)),
                        st.n_src - Min(frame_size(st.e.rate) - st.e.buf_ptr, st.n_src)),
          src   |-> DropRuns(st.src, st.e.channels *
                                Min(frame_size(st.e.rate) - st.e.buf_ptr, st.n_src)),
          n_src |-> st.n_src - Min(frame_size(st.e.rate) - st.e.buf_ptr, st.n_src)]

\* k passes through the while loop: the first half of them, then the rest
RECURSIVE encode16_iter(_, _)
encode16_iter(st, k) ==
    IF k <= 1 THEN encode16_step(st)
    ELSE LET half == encode16_iter(st, k \div 2)
         IN  IF half.n_src > 0 THEN encode16_iter(half, k - k \div 2) ELSE half

\* Encoder::Impl::encode(const int16_t *, size_t)
encode16(e, src, n_src) ==
    encode16_iter([e |-> e, src |-> src, n_src |-> n_src],
                  n_src \div frame_size(e.rate) + 2).e

\* Encoder::encode behind the call of bitrate, which may have thrown
encode16_forwarded(e, src, n_src) ==
    IF e.forward = "error" THEN e ELSE encode16(e, src, n_src)

\* Encoder::encode(const int16_t *, size_t, size_t)
Encoder_encode16(e, src, n_src, b) == encode16_forwarded(bitrate(e, b), src, n_src)

\* mutant: the extra frame is always appended
needs_extra_frame_always(e) == TRUE

\* ~Impl, line 338-339
needs_extra_frame(e) == (frame_size(e.rate) - e.buf_ptr) < pre_skip(e.rate)

\* mutant: the extra frame is not marked as the end of the stream
extra_frame_noflush(e, needed) ==
    IF needed THEN encode_frame(e, <<>>, 0, FALSE, FALSE) ELSE e

\* ~Impl, lines 341-343, on the encoder after the flushing frame
extra_frame(e, needed) ==
    IF needed THEN encode_frame(e, <<>>, 0, FALSE, TRUE) ELSE e

\* mutant: the flushing frame is not cached for the extra frame
EncoderDestroy_nocache(e) ==
    extra_frame(
        encode_frame(e, e.buf, e.buf_ptr, FALSE, ~needs_extra_frame(e)),
        needs_extra_frame(e))

\* mutant: the flushing frame is never marked as the end of the stream
EncoderDestroy_noeos(e) ==
    extra_frame(
        encode_frame(e, e.buf, e.buf_ptr, needs_extra_frame(e), needs_extra_frame(e)),
        needs_extra_frame(e))

\* Encoder::Impl::~Impl
EncoderDestroy(e) ==
    extra_frame(
        encode_frame(e, e.buf, e.buf_ptr, needs_extra_frame(e), ~needs_extra_frame(e)),
        needs_extra_frame(e))

\* ------------------------------------------------------- ChunkTranscoder::Impl
VARIABLES
    decoder_offset, \* constructor argument: global index of the decoder's first sample
    input_len,      \* N: the input timeline holds the samples 0 .. N-1
    dec_pos,        \* global index of the next sample the decoder callback delivers
    dec_log,        \* every callback invocation so far: [req, got, at]
    offs, buf, buf_ptr, at_end,
    sink,           \* the Ogg/Opus streams written so far, one record per chunk
    ret,            \* the values returned by the transcode calls so far
    fault,          \* "none", or the undefined behaviour / failed assertion hit
    m_impl,         \* an Encoder used on its own: its Impl
    m_impl16,       \* the Impl of a second Encoder, fed 16-bit integer samples
    enc_state,      \* "idle", "live", "destroyed" or "crashed"
    enc_calls,      \* the sizes of the encode calls made on m_impl so far
    ndebug,         \* the build defines NDEBUG: assert expands to nothing
    set_call,       \* the last call of a setter of Settings: [name, arg, accepted]
    lpc,            \* a LinearPredictiveCoder with its source and target arrays
    ext             \* a call of lpc_signal_extension: its buffer and arguments

vars == <<settings, decoder_offset, input_len, dec_pos, dec_log,
          offs, buf, buf_ptr, at_end, sink, ret, fault,
          m_impl, m_impl16, enc_state, enc_calls, ndebug, set_call, lpc, ext>>

planner_vars == <<settings, decoder_offset, input_len, dec_pos, dec_log,
                  offs, buf, buf_ptr, at_end, sink, ret, fault>>

encoder_vars == <<m_impl, m_impl16, enc_state, enc_calls>>

settings_vars == <<ndebug, set_call>>

dsp_vars == <<lpc, ext>>

\* neither a LinearPredictiveCoder nor lpc_signal_extension is used on its own
DspIdle == lpc = <<>> /\ ext = <<>>

\* the configurations drawn with the small inputs
SmallSettings ==
    [m_rate : Rates, m_channels : {1, 2}, m_bitrate : {256000},
     m_overlap : 1..MaxOverlap, m_length : 1..MaxLength]

\* Settings() as constructed by default, and with one-second chunks
DefaultSettings ==
    [m_rate |-> 48000, m_channels |-> 2, m_bitrate |-> 256000,
     m_overlap |-> 48, m_length |-> 240000]

\* the concrete runs of the specification's scenarios: settings, input length
Scenarios ==
    { <<DefaultSettings, 480048>>, <<DefaultSettings, 24000>>, <<DefaultSettings, 0>>,
      <<[DefaultSettings EXCEPT !.m_length = 48000, !.m_overlap = 12000], 168000>>,
      <<[DefaultSettings EXCEPT !.m_length = 48000, !.m_overlap = 12000,
                                !.m_channels = 1], 168000>> }

\* ChunkTranscoder::Impl::Impl
Construct(s, d, n) ==
    /\ settings = s
    /\ decoder_offset = d
    /\ input_len = n
    /\ dec_pos = d
    /\ dec_log = <<>>
    /\ offs = d
    /\ buf = KindRuns("zero", total_length_samples(s) * s.m_channels)
    /\ buf_ptr = 0
    /\ at_end = FALSE
    /\ sink = <<>>
    /\ ret = <<>>
    /\ fault = "none"

\* no Encoder is used on its own
EncoderIdle ==
    m_impl = <<>> /\ m_impl16 = <<>> /\ enc_state = "idle" /\ enc_calls = <<>>

Init ==
    /\ \/ \E s \in SmallSettings, d \in 0..MaxOffset, n \in 0..MaxInput :
             Construct(s, d, n)
       \/ \E sc \in Scenarios : Construct(sc[1], 0, sc[2])
    /\ EncoderIdle
    /\ ndebug = FALSE /\ set_call = <<>>
    /\ DspIdle

\* ChunkTranscoder::Impl::read_offs
read_offs(o, bp) == Max(0, o - bp)

\* mutant: the tentative index is returned as it is
idx_at_tentative(s, o, bp) ==
    (read_offs(o, bp) + overlap_samples(s)) \div
    (length_samples(s) + overlap_samples(s))

\* ChunkTranscoder::Impl::idx; the division is undefined for L + O = 0
idx_at(s, o, bp) ==
    LET i == (read_offs(o, bp) + overlap_samples(s)) \div
             (length_samples(s) + overlap_samples(s))
    IN  IF read_offs(o, bp) > offs_for_block_idx_samples(s, i) THEN i + 1 ELSE i

idx == idx_at(settings, offs, buf_ptr)

\* mutant: the flag returned as it is
has_next_inverted == at_end

\* ChunkTranscoder::has_next
has_next == ~at_end

\* the decoder callback over a finite input: the number of samples delivered
\* for a request of n samples when the decoder stands at sample pos
decoder(pos, n) == Min(n, Max(0, input_len - pos))

\* the loop of transcode that advances the decoder to the start of the next
\* chunk (lines 115-127), on p = [offs, buf, buf_ptr, dec_pos, dec_log, at_end]
RECURSIVE skip_loop(_, _)
skip_loop(p, next_idx_offs) ==
    IF p.offs >= next_idx_offs THEN p
    ELSE LET ch == settings.m_channels
             n_read == Min(next_idx_offs - p.offs, RunLen(p.buf) \div ch)
             read == decoder(p.dec_pos, n_read)
             p1 == [p EXCEPT
                      !.offs = @ + read,
                      !.buf = WriteRuns(@, 0, RealRuns(p.dec_pos, read, ch)),
                      !.dec_pos = @ + read,
                      !.dec_log = Append(@, [req |-> n_read, got |-> read,
                                             at |-> 0, loop |-> "skip"])]
         IN  IF read < n_read
             THEN [p1 EXCEPT !.at_end = TRUE]
             ELSE skip_loop([p1 EXCEPT !.buf_ptr = 0], next_idx_offs)

\* mutant: CF_IN is the overlap for every chunk
crossfade_in_for_always(s, next_idx_offs) == overlap_samples(s)

\* the CF_IN value of a chunk that starts at next_idx_offs (lines 133-134)
crossfade_in_for(s, next_idx_offs) ==
    IF next_idx_offs = 0 THEN 0 ELSE overlap_samples(s)

\* mutant: the main read stops one sample before the end of the chunk
main_read_size_less(s, next_idx, o) ==
    offs_end_for_block_idx_samples(s, next_idx) - o - 1

\* the number of samples requested by the main read (lines 136-138)
main_read_size(s, next_idx, o) == offs_end_for_block_idx_samples(s, next_idx) - o

\* mutant: a read that was served in full counts as the end of the input
short_read_le(read, n_read) == read <= n_read

\* the end-of-input test on the main read (line 141)
short_read(read, n_read) == read < n_read

\* mutant: CF_OUT is reset only when the read delivered nothing
crossfade_out_for_empty(s, read, n_read) ==
    IF read = 0 THEN 0 ELSE overlap_samples(s)

\* mutant: CF_OUT is never reset
crossfade_out_for_always(s, read, n_read) == overlap_samples(s)

\* the CF_OUT value after the main read (lines 135, 141-144)
crossfade_out_for(s, read, n_read) ==
    IF short_read(read, n_read) THEN 0 ELSE overlap_samples(s)

\* mutant: the first crossfade_out samples of the chunk are kept
keep_overlap_first(b, chunk_size_total, crossfade_out, ch) ==
    WriteRuns(b, 0, SliceRuns(b, 0, crossfade_out * ch))

\* the buffer after the last crossfade_out samples of the chunk have been
\* copied to its head (lines 163-167)
keep_overlap(b, chunk_size_total, crossfade_out, ch) ==
    WriteRuns(b, 0, SliceRuns(b, (chunk_size_total - crossfade_out) * ch,
                              chunk_size_total * ch))

\* the state transcode works on: the fields of Impl and the decoder
transcode_entry ==
    [offs |-> offs, buf |-> buf, buf_ptr |-> buf_ptr, dec_pos |-> dec_pos,
     dec_log |-> dec_log, at_end |-> FALSE]

\* the main read of transcode (lines 130-145) on the state p left by the skip
\* loop: the state after it, the samples kept from the previous chunk, the
\* request and what the decoder delivered
main_read(p, next_idx, next_idx_offs) ==
    LET n_read == main_read_size(settings, next_idx, p.offs)
        read == decoder(p.dec_pos, n_read)
    IN  [p     |-> [p EXCEPT
                      !.offs = @ + read,
                      !.buf = WriteRuns(@, p.buf_ptr * settings.m_channels,
                                        RealRuns(p.dec_pos, read, settings.m_channels)),
                      !.dec_pos = @ + read,
                      !.dec_log = Append(@, [req |-> n_read, got |-> read,
                                             at |-> p.buf_ptr, loop |-> "main"]),
                      !.at_end = short_read(read, n_read)],
         kept  |-> p.buf_ptr,
         req   |-> n_read,
         got   |-> read,
         crossfade_in  |-> crossfade_in_for(settings, next_idx_offs),
         crossfade_out |-> crossfade_out_for(settings, read, n_read),
         fault |-> IF read_offs(p.offs, p.buf_ptr) /= next_idx_offs
                   THEN "assert read_offs() == next_idx_offs"
                   ELSE IF n_read < 0 THEN "n_read wraps"
                   ELSE IF p.buf_ptr + n_read > RunLen(p.buf) \div settings.m_channels
                   THEN "buf overrun"
                   ELSE "none"]

\* the scope of the Encoder (lines 152-159) on the result m of the main read:
\* constructed with the two tags, fed the chunk, destroyed
chunk_encoded(m) ==
    EncoderDestroy(
        Encoder_encode(
            EncoderImpl(<<<<"CF_IN", to_string(m.crossfade_in)>>,
                          <<"CF_OUT", to_string(m.crossfade_out)>>>>,
                        0, settings.m_channels, settings.m_rate),
            m.p.buf, m.kept + m.got, settings.m_bitrate))

\* transcode from line 148 on: the planner state left behind, the value
\* returned and the stream written by the encoder enc
chunk_written(m, enc, next_idx) ==
    IF m.fault /= "none"
    THEN [p |-> m.p, ret |-> FALSE, out |-> <<>>, fault |-> m.fault]
    ELSE IF m.kept + m.got = 0
    THEN [p |-> m.p, ret |-> FALSE, out |-> <<>>, fault |-> "none"]
    ELSE IF enc.fault /= "none"
    THEN [p |-> m.p, ret |-> FALSE, out |-> <<>>, fault |-> enc.fault]
    ELSE IF m.kept + m.got < m.crossfade_out
    THEN [p |-> m.p, ret |-> FALSE, out |-> <<>>, fault |-> "copy before buf"]
    ELSE [p |-> [m.p EXCEPT
                   !.buf = keep_overlap(@, m.kept + m.got, m.crossfade_out,
                                        settings.m_channels),
                   !.buf_ptr = m.crossfade_out],
          ret |-> TRUE, fault |-> "none",
          out |-> <<[idx     |-> next_idx,
                     head    |-> enc.head,
                     granule_offset |-> enc.granule_offset,
                     frames  |-> enc.frames,
                     pcm     |-> TakeRuns(m.p.buf, (m.kept + m.got) * settings.m_channels),
                     n       |-> m.kept + m.got,
                     kept    |-> m.kept,
                     req     |-> m.req,
                     got     |-> m.got]>>]

\* the main read and the encoding of its chunk
transcode_chunk(m, next_idx) == chunk_written(m, chunk_encoded(m), next_idx)

\* transcode after the skip loop, which may have hit the end of the input
transcode_from(p, next_idx, next_idx_offs) ==
    IF p.at_end
    THEN [p |-> p, ret |-> FALSE, out |-> <<>>, fault |-> "none"]
    ELSE transcode_chunk(main_read(p, next_idx, next_idx_offs), next_idx)

\* ChunkTranscoder::Impl::transcode past the early return of line 106
transcode ==
    transcode_from(skip_loop(transcode_entry, offs_for_block_idx_samples(settings, idx)),
                   idx, offs_for_block_idx_samples(settings, idx))

\* transcode past the early return on a planner state p that is not the
\* current one
transcode_on(p) ==
    transcode_from(
        skip_loop([p EXCEPT !.at_end = FALSE],
                  offs_for_block_idx_samples(settings,
                                             idx_at(settings, p.offs, p.buf_ptr))),
        idx_at(settings, p.offs, p.buf_ptr),
        offs_for_block_idx_samples(settings, idx_at(settings, p.offs, p.buf_ptr)))

\* mutant: the early return is never taken
already_at_end_ignored == FALSE

\* the test of the early return of transcode (line 106)
already_at_end == at_end

\* one call of ChunkTranscoder::transcode(os)
Transcode ==
    /\ fault = "none"
    /\ Len(ret) < MaxCalls
    /\ IF already_at_end
       THEN /\ ret' = Append(ret, FALSE)
            /\ UNCHANGED <<offs, buf, buf_ptr, at_end, dec_pos, dec_log, sink, fault>>
       ELSE IF length_samples(settings) + overlap_samples(settings) = 0
       THEN /\ fault' = "division by zero"
            /\ UNCHANGED <<offs, buf, buf_ptr, at_end, dec_pos, dec_log, sink, ret>>
       ELSE \E r \in {transcode} :
                /\ offs' = r.p.offs
                /\ buf' = r.p.buf
                /\ buf_ptr' = r.p.buf_ptr
                /\ at_end' = r.p.at_end
                /\ dec_pos' = r.p.dec_pos
                /\ dec_log' = r.p.dec_log
                /\ fault' = r.fault
                /\ sink' = sink \o r.out
                /\ ret' = IF r.fault = "none" THEN Append(ret, r.ret) ELSE ret
    /\ UNCHANGED <<settings, decoder_offset, input_len>>
    /\ UNCHANGED encoder_vars
    /\ UNCHANGED settings_vars
    /\ UNCHANGED dsp_vars

Next == Transcode

Spec == Init /\ [][Next]_vars

\* ------------------------------------------------- an Encoder used on its own
MaxEncodeCalls == 3
MaxEncode == 3072

\* the granule offsets drawn for the model
GranuleOffsets == {0, 1000}

\* the sizes of the encode calls drawn for an encoder of the given rate
EncodeSizes(rate) ==
    {1, frame_size(rate) \div 2, frame_size(rate) - 1, frame_size(rate),
     frame_size(rate) + 1, 2 * frame_size(rate), MaxEncode}

\* the bitrates drawn besides the default one: another one, and one the Opus
\* encoder rejects
OtherBitrate == 96000
BadBitrate == 0

\* the encode calls drawn for an encoder of the given rate: <<n, bitrate>>
EncodeCalls(rate) ==
    {<<n, DefaultSettings.m_bitrate>> : n \in EncodeSizes(rate)}
    \cup {<<1, OtherBitrate>>, <<frame_size(rate), OtherBitrate>>, <<1, BadBitrate>>}

\* the values granule_mul is drawn from once it has been overwritten
Overwritten == {0, 3}

\* the samples fed to m_impl so far
RECURSIVE SumSeq(_)
SumSeq(q) == IF q = <<>> THEN 0 ELSE Head(q) + SumSeq(Tail(q))

\* Encoder::Encoder, with no tags
EncInit ==
    /\ Construct(DefaultSettings, 0, 0)
    /\ \E ch \in {1, 2}, rate \in Rates, g \in GranuleOffsets :
          m_impl = EncoderImpl(<<>>, g, ch, rate)
    /\ m_impl16 = <<>>
    /\ enc_state = "live"
    /\ enc_calls = <<>>
    /\ ndebug = FALSE /\ set_call = <<>>
    /\ DspIdle

\* Encoder::encode(const float *, n, bitrate) on the next n samples of the
\* input.  A copy that runs past lpc_buf overwrites granule_mul before any
\* frame of the call is written, or ends the process.  A call whose bitrate
\* is rejected throws before it reads a sample.
EncEncode(n, b) ==
    /\ enc_state = "live"
    /\ Len(enc_calls) < MaxEncodeCalls
    /\ \E e \in {Encoder_encode(m_impl, RealRuns(SumSeq(enc_calls), n, m_impl.channels), n, b)} :
          /\ enc_calls' = IF e.forward = "error" THEN enc_calls ELSE Append(enc_calls, n)
          /\ IF e.fault = "member overrun"
             THEN \/ m_impl' = e /\ enc_state' = "crashed"
                  \/ /\ \E g \in Overwritten :
                           m_impl' = Encoder_encode([m_impl EXCEPT !.granule_mul = g],
                                      RealRuns(SumSeq(enc_calls), n, m_impl.channels), n, b)
                     /\ enc_state' = "live"
             ELSE m_impl' = e /\ enc_state' = "live"
    /\ UNCHANGED m_impl16
    /\ UNCHANGED planner_vars
    /\ UNCHANGED settings_vars
    /\ UNCHANGED dsp_vars

\* Encoder::~Encoder
EncDestroy ==
    /\ enc_state = "live"
    /\ m_impl' = EncoderDestroy(m_impl)
    /\ enc_state' = "destroyed"
    /\ UNCHANGED <<enc_calls, m_impl16>>
    /\ UNCHANGED planner_vars
    /\ UNCHANGED settings_vars
    /\ UNCHANGED dsp_vars

EncNext ==
    \/ \E c \in EncodeCalls(m_impl.rate) : EncEncode(c[1], c[2])
    \/ EncDestroy

EncSpec == EncInit /\ [][EncNext]_vars

\* ------------------------------------------- the two overloads of encode
\* two encoders constructed alike: m_impl is fed float samples, m_impl16 the
\* same number of 16-bit integer samples in every call
CmpInit ==
    /\ Construct(DefaultSettings, 0, 0)
    /\ \E ch \in {1, 2}, rate \in Rates, g \in GranuleOffsets :
          /\ m_impl = EncoderImpl(<<>>, g, ch, rate)
          /\ m_impl16 = EncoderImpl(<<>>, g, ch, rate)
    /\ enc_state = "live"
    /\ enc_calls = <<>>
    /\ ndebug = FALSE /\ set_call = <<>>
    /\ DspIdle

\* Encoder::encode(const float *, n, bitrate) on m_impl and
\* Encoder::encode(const int16_t *, n, bitrate) on m_impl16.  A float copy
\* that runs past lpc_buf overwrites granule_mul or ends the process.
CmpEncode(n, b) ==
    /\ enc_state = "live"
    /\ Len(enc_calls) < MaxEncodeCalls
    /\ \E e \in {Encoder_encode(m_impl, RealRuns(SumSeq(enc_calls), n, m_impl.channels), n, b)} :
          /\ enc_calls' = IF e.forward = "error" THEN enc_calls ELSE Append(enc_calls, n)
          /\ IF e.fault = "member overrun"
             THEN \/ m_impl' = e /\ enc_state' = "crashed"
                  \/ /\ \E g \in Overwritten :
                           m_impl' = Encoder_encode([m_impl EXCEPT !.granule_mul = g],
                                      RealRuns(SumSeq(enc_calls), n, m_impl.channels), n, b)
                     /\ enc_state' = "live"
             ELSE m_impl' = e /\ enc_state' = "live"
    /\ m_impl16' = Encoder_encode16(m_impl16,
                       RealRuns(SumSeq(enc_calls), n, m_impl16.channels), n, b)
    /\ UNCHANGED planner_vars
    /\ UNCHANGED settings_vars
    /\ UNCHANGED dsp_vars

\* the destructors of both encoders
CmpDestroy ==
    /\ enc_state = "live"
    /\ m_impl' = EncoderDestroy(m_impl)
    /\ m_impl16' = EncoderDestroy(m_impl16)
    /\ enc_state' = "destroyed"
    /\ UNCHANGED enc_calls
    /\ UNCHANGED planner_vars
    /\ UNCHANGED settings_vars
    /\ UNCHANGED dsp_vars

CmpNext ==
    \/ \E c \in EncodeCalls(m_impl.rate) : CmpEncode(c[1], c[2])
    \/ CmpDestroy

CmpSpec == CmpInit /\ [][CmpNext]_vars

\* ------------------------------------------------------ the setters of Settings
\* the arguments drawn for the setters
RateInputs == {0, 8000, 12000, 16000, 24000, 44100, 48000, 80000}
ChannelInputs == {0, 1, 2, 3}
BitrateInputs == {499, 500, 256000, 512000, 512001}
OverlapInputs == {0, 1, 48}
LengthInputs == {0, 1, 240000}

\* Settings() in a build with or without NDEBUG
SetInit ==
    /\ Construct(DefaultSettings, 0, 0)
    /\ EncoderIdle
    /\ ndebug \in BOOLEAN
    /\ set_call = <<>>
    /\ DspIdle

\* the assertion of Settings::rate (lines 93-94)
rate_assert(r) == r = 80000 \/ r = 12000 \/ r = 16000 \/ r = 24000 \/ r = 48000

\* a setter whose assertion has the value ok: with NDEBUG, or when the
\* assertion holds, the field is assigned; otherwise the process is aborted
Setter(name, arg, ok, assigned) ==
    /\ fault = "none"
    /\ IF ok \/ ndebug
       THEN /\ settings' = assigned
            /\ set_call' = [name |-> name, arg |-> arg, accepted |-> TRUE]
            /\ UNCHANGED fault
       ELSE /\ fault' = "assert"
            /\ set_call' = [name |-> name, arg |-> arg, accepted |-> FALSE]
            /\ UNCHANGED settings
    /\ UNCHANGED <<decoder_offset, input_len, dec_pos, dec_log, offs, buf, buf_ptr,
                   at_end, sink, ret>>
    /\ UNCHANGED encoder_vars
    /\ UNCHANGED ndebug
    /\ UNCHANGED dsp_vars

\* Settings::rate(size_t)
SetRate(r) == Setter("rate", r, rate_assert(r), [settings EXCEPT !.m_rate = r])

\* Settings::channels(size_t)
SetChannels(c) ==
    Setter("channels", c, c >= 1 /\ c <= 2, [settings EXCEPT !.m_channels = c])

\* Settings::bitrate(size_t)
SetBitrate(b) ==
    Setter("bitrate", b, b >= 500 /\ b <= 512000, [settings EXCEPT !.m_bitrate = b])

\* Settings::overlap(float), the argument in units of 1/48000 s
SetOverlap(o) == Setter("overlap", o, o > 0, [settings EXCEPT !.m_overlap = o])

\* Settings::length(float), the argument in units of 1/48000 s
SetLength(l) == Setter("length", l, l > 0, [settings EXCEPT !.m_length = l])

SetNext ==
    \/ \E r \in RateInputs : SetRate(r)
    \/ \E c \in ChannelInputs : SetChannels(c)
    \/ \E b \in BitrateInputs : SetBitrate(b)
    \/ \E o \in OverlapInputs : SetOverlap(o)
    \/ \E l \in LengthInputs : SetLength(l)

SetSpec == SetInit /\ [][SetNext]_vars

\* ------------------------------------------------------ LinearPredictiveCoder
LPC_ORDER == 24

MaxLpcSrc == 3
MaxLpcTar == 3
LongLpcSrc == 25

\* Samples are the floats 0.0 and 1.0 in the source array and kinds in the
\* coefficients and the target array: "0" is 0.0, "r" a finite number, "nan"
\* not a number, "u" a float the coder has not written.
KindOf(x) == IF x = 0 THEN "0" ELSE "r"

\* the autocorrelation sum aut[j] of lpc_coefficients_from_data (lines 84-94)
RECURSIVE aut_sum(_, _, _, _, _)
aut_sum(src, n_src, stride, j, i) ==
    IF i >= n_src THEN 0
    ELSE src[i * stride + 1] * src[(i - j) * stride + 1]
           + aut_sum(src, n_src, stride, j, i + 1)

aut(src, n_src, stride, j) == aut_sum(src, n_src, stride, j, j)

\* mutant: the noise floor without its constant term, epsilon = 1e-6 * aut[0]
noise_floor_relative(aut0) == aut0 * (10000000 + 1) < 10 * aut0

\* the test error < epsilon before the first iteration (lines 108-114), with
\* error = aut[0] * (1 + 1e-7) and epsilon = 1e-6 * aut[0] + 1e-7, both
\* scaled by 1e7
noise_floor(aut0) == aut0 * (10000000 + 1) < 10 * aut0 + 1

\* lpc_coefficients_from_data: the kinds of the 24 coefficients.  At the
\* noise floor all are 0; otherwise the first reflection coefficient is
\* -aut[1] / error, not a number for error = 0, and the rest follows from it.
lpc_coefficients_from_data(src, n_src, stride) ==
    IF noise_floor(aut(src, n_src, stride, 0))
    THEN [j \in 1..LPC_ORDER |-> "0"]
    ELSE IF aut(src, n_src, stride, 0) = 0
    THEN [j \in 1..LPC_ORDER |-> "nan"]
    ELSE [j \in 1..LPC_ORDER |-> "r"]

\* mutant: the source is read without the test of its index
read_access_unchecked(n_src, i, j) ==
    IF i - j - 1 >= 0 THEN [arr |-> "tar", idx |-> i - j - 1]
    ELSE [arr |-> "src", idx |-> i - j - 1 + n_src]

\* the lambda read of predict_impl (lines 189-201): the array and the sample
\* index it reads for the sample j + 1 places before target sample i
read_access(n_src, i, j) ==
    IF i - j - 1 >= 0 THEN [arr |-> "tar", idx |-> i - j - 1]
    ELSE IF i - j - 1 + n_src >= 0 THEN [arr |-> "src", idx |-> i - j - 1 + n_src]
    ELSE [arr |-> "zero", idx |-> 0]

\* the kind of the sample read; a read outside the source array would give
\* an arbitrary float
predict_read(src, n_src, tar, stride, i, j) ==
    IF read_access(n_src, i, j).arr = "tar"
    THEN tar[read_access(n_src, i, j).idx * stride + 1]
    ELSE IF read_access(n_src, i, j).arr = "src"
    THEN IF read_access(n_src, i, j).idx * stride + 1 \in DOMAIN src
         THEN KindOf(src[read_access(n_src, i, j).idx * stride + 1])
         ELSE "nan"
    ELSE "0"

\* the kind of sum after the inner loop of predict_impl (lines 206-210)
predict_sum(src, n_src, tar, stride, i, coeffs) ==
    IF \E j \in 0..(LPC_ORDER - 1) :
          coeffs[j + 1] = "nan" \/ predict_read(src, n_src, tar, stride, i, j) = "nan"
    THEN "nan"
    ELSE IF \A j \in 0..(LPC_ORDER - 1) :
          coeffs[j + 1] = "0" \/ predict_read(src, n_src, tar, stride, i, j) = "0"
    THEN "0"
    ELSE "r"

\* the target array after the outer loop of predict_impl from sample i on
RECURSIVE predict_loop(_, _, _, _, _, _, _)
predict_loop(src, n_src, tar, n_tar, stride, i, coeffs) ==
    IF i >= n_tar THEN tar
    ELSE predict_loop(src, n_src,
             [tar EXCEPT ![i * stride + 1] =
                  predict_sum(src, n_src, tar, stride, i, coeffs)],
             n_tar, stride, i + 1, coeffs)

\* LinearPredictiveCoder::predict_impl on a target array of n_tar * stride
\* floats: zero fill of the strided samples, then the convolution
predict_impl(src, n_src, n_tar, stride, coeffs) ==
    predict_loop(src, n_src,
        [k \in 1..(n_tar * stride) |-> IF (k - 1) % stride = 0 THEN "0" ELSE "u"],
        n_tar, stride, 0, coeffs)

\* the reads of predict_impl: target sample, tap, array and index read
predict_reads(n_src, n_tar) ==
    {[i |-> i, j |-> j, a |-> read_access(n_src, i, j)] :
        i \in 0..(n_tar - 1), j \in 0..(LPC_ORDER - 1)}

\* a coder and a source array of n_src * stride floats: every array of up to
\* MaxLpcSrc samples, and one of more than LPC_ORDER samples
LpcInit ==
    /\ Construct(DefaultSettings, 0, 0)
    /\ EncoderIdle
    /\ ndebug = FALSE /\ set_call = <<>>
    /\ ext = <<>>
    /\ \E stride \in {1, 2} :
          \/ \E n \in 0..MaxLpcSrc :
                \E src \in [1..(n * stride) -> {0, 1}] :
                   lpc = [src |-> src, n_src |-> n, stride |-> stride, m_coeffs |-> <<>>,
                          tar |-> <<>>, n_tar |-> 0, reads |-> {}, pc |-> "constructed"]
          \/ lpc = [src |-> [k \in 1..(LongLpcSrc * stride) |-> 1],
                    n_src |-> LongLpcSrc, stride |-> stride, m_coeffs |-> <<>>,
                    tar |-> <<>>, n_tar |-> 0, reads |-> {}, pc |-> "constructed"]

\* LinearPredictiveCoder::extract_coefficients(const float *, n, stride)
LpcExtract ==
    /\ lpc.pc = "constructed"
    /\ lpc' = [lpc EXCEPT
                 !.m_coeffs = lpc_coefficients_from_data(lpc.src, lpc.n_src, lpc.stride),
                 !.pc = "extracted"]
    /\ UNCHANGED <<planner_vars, encoder_vars, settings_vars, ext>>

\* LinearPredictiveCoder::predict(const float *, n, float *, n_tar, stride)
LpcPredict(n_tar) ==
    /\ lpc.pc = "extracted"
    /\ lpc' = [lpc EXCEPT
                 !.tar = predict_impl(lpc.src, lpc.n_src, n_tar, lpc.stride, lpc.m_coeffs),
                 !.n_tar = n_tar,
                 !.reads = predict_reads(lpc.n_src, n_tar),
                 !.pc = "predicted"]
    /\ UNCHANGED <<planner_vars, encoder_vars, settings_vars, ext>>

LpcNext ==
    \/ LpcExtract
    \/ \E n_tar \in 0..MaxLpcTar : LpcPredict(n_tar)

LpcSpec == LpcInit /\ [][LpcNext]_vars

\* ------------------------------------------------------- lpc_signal_extension
LPC_INPUT == 480

\* the arguments drawn for the model
ValidLengths == {0, 1, 95, 96, 97, 120}
BufLengths == {0, 1, 96, 97, 98, 100, 121, 125, 150}

\* The floats of the buffer are kinds: "v" a sample of the valid data (the
\* float 1.0), "g" what the caller left behind the valid data, "0" 0.0, "p" a
\* predicted sample, and "vs", "gs", "ps" a sample multiplied by a window
\* value below 1.  x = [buf, written, oob]: the buffer, the float indices
\* written inside it and the float indices written past its end.

\* std::fill_n(buf + from, count, 0.0f) (line 109)
ext_fill(x, from, count) ==
    [buf     |-> [k \in 1..Len(x.buf) |->
                    IF k - 1 >= from /\ k - 1 < from + count THEN "0" ELSE x.buf[k]],
     written |-> x.written \cup {k \in from..(from + count - 1) : k < Len(x.buf)},
     oob     |-> x.oob \cup {k \in from..(from + count - 1) : k >= Len(x.buf)}]

\* the prediction loop of channel c (lines 120-127)
ext_predict(x, buf_len, valid, channels, c) ==
    [x EXCEPT
       !.buf = [k \in 1..Len(x.buf) |->
                  IF k - 1 >= valid * channels /\ (k - 1) % channels = c
                  THEN "p" ELSE x.buf[k]],
       !.written = @ \cup {i * channels + c : i \in valid..(buf_len - 1)}]

\* LPC_WINDOW[i] is 1 for i = 0 and below 1 for i >= 1
ext_scaled(kind, i) ==
    IF i = 0 \/ kind = "0" THEN kind
    ELSE IF kind = "v" \/ kind = "vs" THEN "vs"
    ELSE IF kind = "p" \/ kind = "ps" THEN "ps"
    ELSE "gs"

\* the float index the window loop scales for sample i of channel c (line 130)
ext_window_index(valid, channels, c, i) == valid + i * channels + c

\* the window loop of channel c (lines 128-131)
ext_window(x, valid, channels, c, end) ==
    [x EXCEPT
       !.buf = [k \in 1..Len(x.buf) |->
                  IF \E i \in 0..(end - 1) :
                        k - 1 = ext_window_index(valid, channels, c, i)
                  THEN ext_scaled(x.buf[k],
                          CHOOSE i \in 0..(end - 1) :
                             k - 1 = ext_window_index(valid, channels, c, i))
                  ELSE x.buf[k]],
       !.written = @ \cup {ext_window_index(valid, channels, c, i) : i \in 0..(end - 1)}]

\* the loop over the channels from channel c on (lines 116-132)
RECURSIVE ext_channels(_, _, _, _, _)
ext_channels(x, buf_len, valid, channels, c) ==
    IF c >= channels THEN x
    ELSE ext_channels(
             ext_window(ext_predict(x, buf_len, valid, channels, c),
                        valid, channels, c, Min(buf_len - valid, LPC_ORDER)),
             buf_len, valid, channels, c + 1)

\* lpc_signal_extension(buf, buf_len, valid_data_length, channels)
lpc_signal_extension(x, buf_len, valid, channels) ==
    IF valid >= buf_len THEN x
    ELSE IF Min(LPC_INPUT, valid) < 4 * LPC_ORDER \/ buf_len - valid = 0
    THEN ext_fill(x, channels * valid, 2 * (buf_len - valid))
    ELSE ext_channels(x, buf_len, valid, channels, 0)

\* a buffer of buf_len samples whose first valid ones are valid data (all of
\* them when valid exceeds buf_len)
ExtInit ==
    /\ Construct(DefaultSettings, 0, 0)
    /\ EncoderIdle
    /\ ndebug = FALSE /\ set_call = <<>>
    /\ lpc = <<>>
    /\ \E buf_len \in BufLengths, valid \in ValidLengths, channels \in {1, 2} :
          ext = [buf |-> [k \in 1..(buf_len * channels) |->
                            IF k - 1 < valid * channels THEN "v" ELSE "g"],
                 written |-> {}, oob |-> {},
                 buf_len |-> buf_len, valid |-> valid, channels |-> channels,
                 before |-> <<>>, pc |-> "call"]

\* one call of lpc_signal_extension
ExtCall ==
    /\ ext.pc = "call"
    /\ \E x \in {lpc_signal_extension([buf |-> ext.buf, written |-> {}, oob |-> {}],
                                      ext.buf_len, ext.valid, ext.channels)} :
          ext' = [ext EXCEPT !.buf = x.buf, !.written = x.written, !.oob = x.oob,
                             !.before = ext.buf, !.pc = "done"]
    /\ UNCHANGED <<planner_vars, encoder_vars, settings_vars, lpc>>

ExtNext == ExtCall

ExtSpec == ExtInit /\ [][ExtNext]_vars

\* ================================================================== claims
\* quantities the claims are stated in
L == length_samples(settings)
O == overlap_samples(settings)
N == input_len
C == settings.m_channels

\* start(i) and end(i) of the chunk plan
ChunkStart(i) == IF i * (L + O) - O > 0 THEN i * (L + O) - O ELSE 0
ChunkEnd(i) == (i + 1) * (L + O)

\* the largest chunk index the pure-function claims are evaluated at
MaxBlockIdx == 6

\* the number a decimal tag value denotes
RECURSIVE from_string(_)
from_string(d) ==
    IF d = <<>> THEN 0
    ELSE 10 * from_string(SubSeq(d, 1, Len(d) - 1)) + d[Len(d)]

Tag(c, key) ==
    LET i == CHOOSE j \in 1..Len(c.head.tags) : c.head.tags[j][1] = key
    IN  from_string(c.head.tags[i][2])

HasTag(c, key) == \E j \in 1..Len(c.head.tags) : c.head.tags[j][1] = key

RECURSIVE NumTrue(_)
NumTrue(r) == IF r = <<>> THEN 0 ELSE (IF Head(r) THEN 1 ELSE 0) + NumTrue(Tail(r))

\* some transcode call has returned false
Terminated == \E i \in 1..Len(ret) : ~ret[i]

\* the end of the prefix [0, c) of the input floats covered by the first k
\* chunks, or -1 when they leave a gap or are not a piece of the input
RECURSIVE CoveredUpTo(_)
CoveredUpTo(k) ==
    IF k = 0 THEN 0
    ELSE LET c == CoveredUpTo(k - 1)
             pcm == sink[k].pcm
         IN  IF c >= 0 /\ Len(pcm) = 1 /\ pcm[1].k = "real" /\ pcm[1].v <= c
             THEN Max(c, pcm[1].v + pcm[1].n) ELSE 0 - 1

\* the k-th successful call (k = 0, 1, ..) handed the encoder exactly the
\* samples [start(k), min(end(k), N)), and once the calls have ended the
\* chunks cover [0, N)
ChunksFollowPlan ==
    /\ \A k \in 1..Len(sink) :
          sink[k].pcm = RealRuns(ChunkStart(k - 1),
                                 Min(ChunkEnd(k - 1), N) - ChunkStart(k - 1), C)
    /\ Terminated => CoveredUpTo(Len(sink)) = N * C

\* C1 (as stated): with decoder_offset = 0 and N >= 1 input samples the k-th
\* successful transcode call passes the samples [start(k), min(end(k), N)) to
\* the encoder, in order, and the union of all chunks is [0, N).
C1_AsStated == (decoder_offset = 0 /\ N >= 1) => ChunksFollowPlan

\* C1 (amended): the same, for settings whose chunk length is at least one
\* sample (L >= 1).
C1_ChunksFollowPlan == (decoder_offset = 0 /\ N >= 1 /\ L >= 1) => ChunksFollowPlan

C1_Witness ==
    /\ decoder_offset = 0 /\ L >= 1 /\ O >= 1 /\ C = 2
    /\ Terminated /\ Len(sink) >= 3
    /\ N % (L + O) /= 0

\* C2: the last O samples handed to the encoder for a chunk are the first O
\* samples handed to it for the next chunk, and right after a chunk with a
\* full read buf_ptr = O and the buffer head holds the samples from
\* start(i+1) on.
C2_OverlapIdentical ==
    /\ \A k \in 1..(Len(sink) - 1) :
          /\ sink[k].n >= O
          /\ SliceRuns(sink[k].pcm, (sink[k].n - O) * C, sink[k].n * C)
               = TakeRuns(sink[k + 1].pcm, O * C)
    /\ (Len(ret) > 0 /\ ret[Len(ret)] /\ sink[Len(sink)].got = sink[Len(sink)].req)
          => /\ buf_ptr = O
             /\ TakeRuns(buf, O * C)
                  = RealRuns(ChunkStart(sink[Len(sink)].idx + 1), O, C)

C2_Witness ==
    /\ O >= 2 /\ C = 2 /\ Len(sink) >= 2 /\ decoder_offset > 0
    /\ ret[Len(ret)] /\ sink[Len(sink)].got = sink[Len(sink)].req

\* C3: for L >= 1 the two offset functions of Settings are
\* start(i) = max(0, i*(L+O) - O) and end(i) = (i+1)*(L+O); starts increase
\* strictly, ends advance by L+O and each chunk overlaps the next by O.
C3_BlockOffsets ==
    L >= 1 =>
      \A i \in 0..MaxBlockIdx :
         /\ offs_for_block_idx_samples(settings, i) = ChunkStart(i)
         /\ offs_end_for_block_idx_samples(settings, i) = ChunkEnd(i)
         /\ \A j \in (i + 1)..MaxBlockIdx :
               offs_for_block_idx_samples(settings, i)
                 < offs_for_block_idx_samples(settings, j)
         /\ i >= 1 => offs_end_for_block_idx_samples(settings, i)
                        = offs_end_for_block_idx_samples(settings, i - 1) + L + O
         /\ offs_end_for_block_idx_samples(settings, i)
              - offs_for_block_idx_samples(settings, i + 1) = O

C3_Witness ==
    /\ L >= 1 /\ O >= 1 /\ Len(sink) >= 2
    /\ sink[2].idx = 1
    /\ sink[2].pcm[1].v = offs_for_block_idx_samples(settings, 1) * C

\* C4 (as stated): a chunk carries CF_OUT = O exactly when its main read was
\* served in full and CF_OUT = 0 exactly when it was short; a short read
\* sets at_end.
C4_AsStated ==
    \A k \in 1..Len(sink) :
       /\ (Tag(sink[k], "CF_OUT") = O) <=> (sink[k].got = sink[k].req)
       /\ (Tag(sink[k], "CF_OUT") = 0) <=> (sink[k].got < sink[k].req)
       /\ sink[k].got < sink[k].req => at_end

\* C4 (amended): a chunk carries CF_OUT = O when its main read was served in
\* full and CF_OUT = 0 when it was short, and a short read sets at_end; the
\* tag tells the two cases apart when O >= 1.
C4_CrossfadeOut ==
    \A k \in 1..Len(sink) :
       /\ sink[k].got = sink[k].req => Tag(sink[k], "CF_OUT") = O
       /\ sink[k].got < sink[k].req => Tag(sink[k], "CF_OUT") = 0 /\ at_end
       /\ sink[k].got <= sink[k].req
       /\ O >= 1 => /\ (Tag(sink[k], "CF_OUT") = O) <=> (sink[k].got = sink[k].req)
                    /\ (Tag(sink[k], "CF_OUT") = 0) <=> (sink[k].got < sink[k].req)

C4_Witness ==
    /\ O >= 1 /\ Len(sink) >= 2
    /\ sink[1].got = sink[1].req /\ Tag(sink[1], "CF_OUT") = O
    /\ sink[2].got < sink[2].req /\ sink[2].got > 0 /\ Tag(sink[2], "CF_OUT") = 0

\* C5: a chunk that starts at global sample 0 carries CF_IN = 0 and every
\* chunk that starts later carries CF_IN = O, for any decoder_offset.
C5_CrossfadeIn ==
    \A k \in 1..Len(sink) :
       LET first == sink[k].pcm[1].v \div C
       IN  /\ sink[k].pcm[1].k = "real"
           /\ first = offs_for_block_idx_samples(settings, sink[k].idx)
           /\ first = 0 => Tag(sink[k], "CF_IN") = 0
           /\ first > 0 => Tag(sink[k], "CF_IN") = O

C5_Witness ==
    /\ O >= 1 /\ decoder_offset > 0 /\ Len(sink) >= 1
    /\ sink[1].pcm[1].v > 0 /\ Tag(sink[1], "CF_IN") = O

\* a stream that is complete: header with both tags, at least one audio
\* packet, end-of-stream on the last packet and on no other
CompleteChunk(c) ==
    /\ HasTag(c, "CF_IN") /\ HasTag(c, "CF_OUT")
    /\ Len(c.frames) >= 1
    /\ \A i \in 1..Len(c.frames) : c.frames[i].last <=> (i = Len(c.frames))

\* C6: for an input of N >= 1 samples, N not a multiple of L+O, read from
\* offset 0, the last chunk emitted carries CF_OUT = 0 and its last packet
\* is written with the end-of-stream flag.
C6_LastChunk ==
    (decoder_offset = 0 /\ N >= 1 /\ L + O > 0 /\ N % (L + O) /= 0 /\ Terminated)
      => /\ Len(sink) >= 1
         /\ Tag(sink[Len(sink)], "CF_OUT") = 0
         /\ sink[Len(sink)].frames[Len(sink[Len(sink)].frames)].last

C6_Witness ==
    /\ decoder_offset = 0 /\ N >= 1 /\ O >= 1 /\ N % (L + O) /= 0 /\ Terminated
    /\ Len(sink) >= 2
    /\ Len(sink[Len(sink)].frames) >= 2

\* the number of chunks C7 expects
ExpectedChunks == IF N >= 1 THEN N \div (L + O) + 1 ELSE 0

\* C7: with decoder_offset = 0, L >= 1, O >= 1 the calls return true exactly
\* floor(N/(L+O)) + 1 times (0 times for N = 0) and then false for ever;
\* 480048 samples with the default settings give the chunks (0, 48) and
\* (48, 0), 24000 samples give one chunk (0, 0).
C7_ChunkCount ==
    (decoder_offset = 0 /\ L >= 1 /\ O >= 1) =>
      /\ NumTrue(ret) <= ExpectedChunks
      /\ Len(ret) > ExpectedChunks =>
            /\ NumTrue(ret) = ExpectedChunks
            /\ \A i \in 1..Len(ret) : ret[i] <=> (i <= ExpectedChunks)
      /\ (settings = DefaultSettings /\ N = 480048 /\ Terminated) =>
            /\ Len(sink) = 2
            /\ Tag(sink[1], "CF_IN") = 0 /\ Tag(sink[1], "CF_OUT") = 48
            /\ Tag(sink[2], "CF_IN") = 48 /\ Tag(sink[2], "CF_OUT") = 0
      /\ (settings = DefaultSettings /\ N = 24000 /\ Terminated) =>
            /\ Len(sink) = 1
            /\ Tag(sink[1], "CF_IN") = 0 /\ Tag(sink[1], "CF_OUT") = 0

C7_Witness ==
    /\ settings = DefaultSettings /\ N = 480048 /\ decoder_offset = 0
    /\ L = 240000 /\ O = 48
    /\ ret = <<TRUE, TRUE, FALSE, FALSE>>

\* scenario S4: 48 kHz, chunks of 1 s, overlap 0.25 s, 3.5 s of input
IsS4 ==
    /\ settings.m_rate = 48000 /\ settings.m_length = 48000
    /\ settings.m_overlap = 12000
    /\ N = 168000 /\ decoder_offset = 0

\* C8 (as stated): 3.5 s of input with L = 48000, O = 12000 yield exactly 4
\* chunks, the last with CF_OUT = 0.
C8_AsStated ==
    (IsS4 /\ Terminated) => Len(sink) = 4 /\ Tag(sink[Len(sink)], "CF_OUT") = 0

\* C8 (amended): 3.5 s of input with L = 48000, O = 12000 yield exactly 3
\* chunks, covering [0, 60000), [48000, 120000) and [108000, 168000), the
\* last with CF_OUT = 0.
C8_ThreeChunks ==
    IsS4 =>
       /\ L = 48000 /\ O = 12000
       /\ Len(sink) <= 3
       /\ Terminated =>
             /\ Len(sink) = 3
             /\ NumTrue(ret) = 3
             /\ sink[1].pcm = RealRuns(0, 60000, C)
             /\ sink[2].pcm = RealRuns(48000, 72000, C)
             /\ sink[3].pcm = RealRuns(108000, 60000, C)
             /\ Tag(sink[3], "CF_OUT") = 0

C8_Witness == IsS4 /\ C = 2 /\ Terminated /\ Len(sink) = 3 /\ Len(ret) >= 5

\* C9: a transcode call returns true exactly when it has written one
\* complete stream (header, audio packets, end-of-stream) to the sink; a call
\* that returns false writes nothing.
C9_ReturnValue ==
    [][ret' /= ret =>
          /\ Len(ret') = Len(ret) + 1
          /\ ret'[Len(ret')] =>
                /\ Len(sink') = Len(sink) + 1
                /\ SubSeq(sink', 1, Len(sink)) = sink
                /\ CompleteChunk(sink'[Len(sink')])
          /\ ~ret'[Len(ret')] => sink' = sink]_vars

C9_Witness ==
    /\ Len(sink) >= 2 /\ Terminated /\ decoder_offset > 0
    /\ \E i \in 1..Len(dec_log) : dec_log[i].loop = "skip"

\* C10: once has_next() is false every transcode call returns false, and
\* at_end never goes back from true to false.
C10_EndIsFinal ==
    [][/\ ~has_next => (~has_next' /\ (ret' /= ret => ret' = Append(ret, FALSE)))
       /\ at_end => at_end']_vars

C10_Witness == ~has_next /\ Len(ret) >= 3 /\ ~ret[Len(ret)] /\ ~ret[Len(ret) - 1]

\* C11: once the decoder callback has delivered fewer samples than it was
\* asked for, it is never invoked again: only the last invocation on record
\* can be a short one, and after a short one the record stays as it is.
C11_NoCallAfterShort ==
    /\ \A i \in 1..(Len(dec_log) - 1) : dec_log[i].got = dec_log[i].req
    /\ \A i \in 1..Len(dec_log) : dec_log[i].got <= dec_log[i].req
    /\ (\E i \in 1..Len(dec_log) : dec_log[i].got < dec_log[i].req) => at_end

C11_Witness ==
    /\ Len(dec_log) >= 3 /\ dec_log[1].loop = "skip"
    /\ dec_log[Len(dec_log)].got < dec_log[Len(dec_log)].req
    /\ dec_log[Len(dec_log)].loop = "main"
    /\ Len(ret) >= 4 /\ ~ret[Len(ret)] /\ ~ret[Len(ret) - 1]

\* the position of the buffer head
HeadPos == read_offs(offs, buf_ptr)

\* idx() is the smallest chunk index whose start is not before the buffer head
IdxIsSmallest ==
    /\ ChunkStart(idx) >= HeadPos
    /\ \A j \in 0..(idx - 1) : ChunkStart(j) < HeadPos

\* what C12 says about one step of the planner
IdxFollowsPlan ==
    /\ IdxIsSmallest
    /\ Len(sink') = Len(sink) + 1 =>
          LET c == sink'[Len(sink')]
          IN  /\ c.idx = idx
              /\ c.pcm[1].k = "real" /\ c.pcm[1].v = ChunkStart(idx) * C
              /\ c.got = c.req => idx' = idx + 1

\* C12 (as stated): whenever has_next() is true, idx() is the smallest i with
\* start(i) >= p for the buffer head p = max(0, offs - buf_ptr), the next
\* transcode call produces chunk i, and after a chunk i with a full read
\* idx() = i + 1.  (Settings with L + O = 0, for which idx() divides by
\* zero, are left aside.)
C12_AsStated ==
    [][(has_next /\ fault = "none" /\ L + O > 0) => IdxFollowsPlan]_vars

\* C12 (amended): the same, for settings whose chunk length is at least one
\* sample (L >= 1).
C12_IdxSmallest ==
    [][(has_next /\ fault = "none" /\ L >= 1) => IdxFollowsPlan]_vars

C12_Witness ==
    /\ L >= 1 /\ O >= 1 /\ decoder_offset > 0 /\ has_next
    /\ Len(sink) >= 2
    /\ sink[1].pcm[1].v > decoder_offset * C
    /\ sink[Len(sink)].got = sink[Len(sink)].req /\ ret[Len(ret)]
    /\ idx = sink[Len(sink)].idx + 1

\* the encoder used on its own: samples fed, packets written, last packet
FedSamples == SumSeq(enc_calls)
Packets == m_impl.frames
LastPacket == Packets[Len(Packets)]
TrueGranuleMul == 48000 \div m_impl.rate

\* C13: an encoder constructed with granule_offset 0, fed N samples over any
\* sequence of encode calls and destroyed, passes with its final packet a
\* granule that exceeds the header pre-skip by N * granule_mul, and its
\* final_padding is 0 then.
C13_FinalGranule ==
    (enc_state = "destroyed" /\ m_impl.granule_offset = 0) =>
       /\ Len(Packets) >= 1
       /\ LastPacket.last
       /\ LastPacket.granule - m_impl.head.pre_skip = FedSamples * TrueGranuleMul
       /\ m_impl.head.pre_skip
            = TrueGranuleMul * (frame_size(m_impl.rate) + pre_skip(m_impl.rate))
       /\ m_impl.final_padding = 0

\* the granule passed with the last packet of a chunk
FinalGranule(c) == c.frames[Len(c.frames)].granule

\* C14 (as stated): for every chunk the granule passed with the end-of-stream
\* packet equals (real input samples in the chunk) * granule_mul.
C14_AsStated ==
    \A k \in 1..Len(sink) :
       /\ sink[k].frames[Len(sink[k].frames)].last
       /\ FinalGranule(sink[k]) = sink[k].n * (48000 \div settings.m_rate)

\* C14 (amended): for every chunk the granule passed with the end-of-stream
\* packet equals the header pre-skip plus (real input samples in the chunk)
\* * granule_mul.
C14_ChunkGranule ==
    \A k \in 1..Len(sink) :
       /\ sink[k].frames[Len(sink[k].frames)].last
       /\ sink[k].pcm = Norm(sink[k].pcm) /\ RunLen(sink[k].pcm) = sink[k].n * C
       /\ \A i \in 1..Len(sink[k].pcm) : sink[k].pcm[i].k = "real"
       /\ FinalGranule(sink[k])
            = sink[k].head.pre_skip + sink[k].n * (48000 \div settings.m_rate)

C14_Witness ==
    /\ Len(sink) >= 2
    /\ sink[1].n > frame_size(settings.m_rate)
    /\ sink[2].n % frame_size(settings.m_rate) /= 0
    /\ settings.m_rate = 48000
    /\ FinalGranule(sink[2]) = 1272 + sink[2].n

\* the packets that carry the end-of-stream flag
EosPackets == {i \in 1..Len(Packets) : Packets[i].last}

\* C15: over the lifetime of an encoder exactly one packet is written with
\* the end-of-stream flag and it is the last one written: the flushing frame
\* of the destructor when no extra frame follows, the extra frame otherwise;
\* no packet written before the destructor carries it.
C15_OneEos ==
    /\ enc_state = "live" => EosPackets = {}
    /\ enc_state = "destroyed" =>
          /\ EosPackets = {Len(Packets)}
          /\ ~LastPacket.lead_in
          /\ \E i \in 1..(Len(Packets) - 1) : Packets[i].lead_in
          /\ LastPacket.last_in_seq = FALSE

C15_Witness ==
    /\ enc_state = "destroyed" /\ Len(enc_calls) >= 2
    /\ Len(Packets) >= 4
    /\ LastPacket.n_real = 0 /\ LastPacket.last
    /\ Packets[Len(Packets) - 1].n_real > 0
    /\ Packets[Len(Packets) - 1].n_real < frame_size(m_impl.rate)

\* C16: the granules passed to the muxer during one encoder lifetime never
\* decrease, for any sequence of encode calls followed by destruction.
C16_GranuleMonotonic ==
    enc_state /= "idle" =>
       \A i \in 1..(Len(Packets) - 1) : Packets[i].granule <= Packets[i + 1].granule

\* a packet that holds input samples
HasReal(f) == \E i \in 1..Len(f.pcm) : f.pcm[i].k = "real"

\* C17: every chunk holds at least 2 audio packets: the first is the
\* synthesised lead-in frame, the only one, and no packet with input samples
\* comes before it; at least one packet holds input samples; at most one
\* packet at the end holds none.
C17_ChunkPackets ==
    \A k \in 1..Len(sink) :
       LET f == sink[k].frames
       IN  /\ Len(f) >= 2
           /\ f[1].lead_in /\ ~HasReal(f[1])
           /\ \A i \in 2..Len(f) : ~f[i].lead_in
           /\ HasReal(f[2])
           /\ \A i \in 2..(Len(f) - 1) : HasReal(f[i])

C17_Witness ==
    /\ Len(sink) >= 2
    /\ ~HasReal(sink[2].frames[Len(sink[2].frames)])
    /\ sink[2].n % frame_size(settings.m_rate) = 0
    /\ HasReal(sink[1].frames[Len(sink[1].frames)])

\* the global index of the first input sample of a chunk
FirstSample(c) == c.pcm[1].v \div C

\* C18: for each chunk the encoder's native-rate granule counter starts at
\* the chunk's absolute position on the input timeline, so the granules of
\* the chunk tell where it lies in the original stream.
C18_GranuleOffset ==
    \A k \in 1..Len(sink) :
       /\ sink[k].granule_offset = FirstSample(sink[k])
       /\ sink[k].frames[1].granule
            = (FirstSample(sink[k]) + frame_size(settings.m_rate))
                 * (48000 \div settings.m_rate)

\* the number of samples between the start and the end of chunk i
PlanLength(i) == ChunkEnd(i) - ChunkStart(i)

\* C19 (as stated): every chunk but the last is fed to the encoder with
\* exactly L + 2*O input samples; the last chunk with fewer.
C19_AsStated ==
    /\ \A k \in 1..(Len(sink) - 1) : sink[k].n = L + 2 * O
    /\ (Terminated /\ Len(sink) >= 1) => sink[Len(sink)].n < L + 2 * O

\* C19 (amended): a chunk whose main read was served in full is fed to the
\* encoder with exactly end(i) - start(i) input samples, which is L + 2*O
\* when it starts after sample 0 and L + O for chunk 0; a chunk whose main
\* read was short is the last one and is fed with fewer than
\* end(i) - start(i).
C19_ChunkLength ==
    \A k \in 1..Len(sink) :
       /\ RunLen(sink[k].pcm) = sink[k].n * C
       /\ sink[k].got = sink[k].req =>
             /\ sink[k].n = PlanLength(sink[k].idx)
             /\ FirstSample(sink[k]) > 0 => sink[k].n = L + 2 * O
             /\ sink[k].idx = 0 => sink[k].n = L + O
       /\ sink[k].got /= sink[k].req =>
             /\ sink[k].n < PlanLength(sink[k].idx)
             /\ k = Len(sink)
       /\ k < Len(sink) => sink[k].got = sink[k].req

C19_Witness ==
    /\ L >= 1 /\ O >= 1 /\ Len(sink) >= 3 /\ Terminated
    /\ sink[1].n = L + O /\ sink[2].n = L + 2 * O
    /\ sink[3].n < L + 2 * O

\* the capacity of the planner's buffer in samples
Capacity == RunLen(buf) \div C

\* C20: for any decoder_offset, buf_ptr never exceeds L + 2*O, the capacity
\* of the buffer, and every callback invocation asks for no more samples
\* than fit between its write position and the end of the buffer.
C20_BufferBounds ==
    /\ RunLen(buf) = (L + 2 * O) * C
    /\ buf_ptr >= 0 /\ buf_ptr <= L + 2 * O
    /\ \A i \in 1..Len(dec_log) :
          /\ dec_log[i].req >= 0 /\ dec_log[i].at >= 0
          /\ dec_log[i].at + dec_log[i].req <= Capacity
          /\ dec_log[i].at + dec_log[i].req <= L + 2 * O
          /\ dec_log[i].loop = "skip" => dec_log[i].at = 0
    /\ fault \in {"none", "division by zero"}

C20_Witness ==
    /\ decoder_offset > 0 /\ L >= 1 /\ O >= 1
    /\ Len(dec_log) >= 3
    /\ dec_log[1].loop = "skip" /\ dec_log[1].req > 0
    /\ dec_log[3].at = O /\ dec_log[3].at + dec_log[3].req = L + 2 * O
    /\ buf_ptr = O

\* the planner as constructed with decoder offset 0 over the whole input
SequentialEntry ==
    [offs |-> 0, buf |-> KindRuns("zero", total_length_samples(settings) * C),
     buf_ptr |-> 0, dec_pos |-> 0, dec_log |-> <<>>, at_end |-> FALSE]

\* the chunks emitted by at most k transcode calls from planner state p
RECURSIVE SequentialChunks(_, _)
RECURSIVE SequentialRest(_, _)
SequentialRest(r, k) ==
    r.out \o (IF r.fault /= "none" \/ r.p.at_end THEN <<>>
              ELSE SequentialChunks(r.p, k - 1))
SequentialChunks(p, k) ==
    IF k <= 0 THEN <<>> ELSE SequentialRest(transcode_on(p), k)

\* chunk i as the planner started at offset 0 emits it, <<>> if it does not
SequentialChunk(i) ==
    LET q == SequentialChunks(SequentialEntry, i + 1)
    IN  IF \E k \in 1..Len(q) : q[k].idx = i
        THEN <<q[CHOOSE k \in 1..Len(q) : q[k].idx = i]>>
        ELSE <<>>

\* the planner was seeded with the start of a chunk and has emitted a chunk
SeededAtStart ==
    /\ L + O > 0 /\ Len(sink) >= 1
    /\ decoder_offset = ChunkStart(sink[1].idx)

\* C21: a planner constructed with decoder_offset = start(i) emits as its
\* first chunk the same samples [start(i), min(end(i), N)) and the same
\* CF_IN and CF_OUT tags as chunk i of the planner started at offset 0, for
\* every i the planner started at offset 0 emits.
C21_SeededEqualsSequential ==
    (SeededAtStart /\ SequentialChunk(sink[1].idx) /= <<>>) =>
       LET c == SequentialChunk(sink[1].idx)[1]
       IN  /\ sink[1].pcm = c.pcm
           /\ sink[1].pcm = RealRuns(ChunkStart(c.idx),
                                     Min(ChunkEnd(c.idx), N) - ChunkStart(c.idx), C)
           /\ sink[1].head = c.head
           /\ Tag(sink[1], "CF_IN") = Tag(c, "CF_IN")
           /\ Tag(sink[1], "CF_OUT") = Tag(c, "CF_OUT")

C21_Witness ==
    /\ SeededAtStart /\ decoder_offset > 0 /\ O >= 1 /\ L >= 1
    /\ sink[1].idx >= 2
    /\ SequentialChunk(sink[1].idx) /= <<>>
    /\ SequentialChunk(sink[1].idx)[1].kept = O
    /\ sink[1].kept = 0
    /\ Tag(sink[1], "CF_OUT") = O

\* the rates the documentation of Settings::rate lists
LegalRates == {8000, 12000, 16000, 24000, 48000}

\* C23: Settings::rate(r) accepts r exactly when r is one of 8000, 12000,
\* 16000, 24000, 48000, and every accepted rate divides 48000, so that
\* granule_mul = 48000 / rate is a positive integer.  (Stated for builds in
\* which assertions are active; with NDEBUG no argument is rejected.)
C23_RateAccepted ==
    (~ndebug /\ set_call /= <<>> /\ set_call.name = "rate") =>
       /\ set_call.accepted <=> set_call.arg \in LegalRates
       /\ set_call.accepted =>
             /\ settings.m_rate = set_call.arg
             /\ 48000 % set_call.arg = 0
             /\ 48000 \div set_call.arg >= 1

\* C26: with the default Settings (rate 48000, overlap 1e-3 s)
\* overlap_samples() returns 96.
C26_DefaultOverlap ==
    (settings.m_rate = DefaultSettings.m_rate
       /\ settings.m_overlap = DefaultSettings.m_overlap)
      => overlap_samples(settings) = 96

\* the samples of the coder's source array that belong to its channel
LpcInput == {lpc.src[i * lpc.stride + 1] : i \in 0..(lpc.n_src - 1)}

\* C24: for an all-zero input of any length (0 included) and any stride,
\* extract_coefficients ends with all 24 coefficients 0 and a following
\* predict fills all n_tar target samples with 0.
C24_ZeroInput ==
    (lpc /= <<>> /\ LpcInput \subseteq {0}) =>
       /\ lpc.pc /= "constructed" =>
             /\ Len(lpc.m_coeffs) = LPC_ORDER
             /\ \A j \in 1..LPC_ORDER : lpc.m_coeffs[j] = "0"
       /\ lpc.pc = "predicted" =>
             /\ Len(lpc.tar) = lpc.n_tar * lpc.stride
             /\ \A i \in 0..(lpc.n_tar - 1) : lpc.tar[i * lpc.stride + 1] = "0"

C24_Witness ==
    /\ lpc /= <<>> /\ lpc.pc = "predicted"
    /\ lpc.n_src = 3 /\ lpc.stride = 2 /\ lpc.n_tar = 3
    /\ LpcInput = {0}
    /\ lpc.src[2] = 1
    /\ lpc.tar[1] = "0" /\ lpc.tar[5] = "0"

\* C25: for all buf_len, valid_data_length and channels in {1, 2},
\* lpc_signal_extension leaves the floats below valid_data_length * channels
\* as they are and writes only behind them; for valid_data_length >= buf_len
\* it changes nothing.
C25_ValidDataKept ==
    (ext /= <<>> /\ ext.pc = "done") =>
       /\ \A k \in 1..Len(ext.buf) :
             k - 1 < ext.valid * ext.channels => ext.buf[k] = ext.before[k]
       /\ \A k \in ext.written \cup ext.oob : k >= ext.valid * ext.channels
       /\ ext.valid >= ext.buf_len =>
             ext.buf = ext.before /\ ext.written = {} /\ ext.oob = {}

\* the frames an encode call appended to the stream
CallFrames == SubSeq(m_impl'.frames, Len(m_impl.frames) + 1, Len(m_impl'.frames))

\* C28: an encode call on float samples that encodes at least one full frame
\* passes the last full frame it encodes with last_in_seq = true, from src as
\* from the staging buffer, so that afterwards lpc_buf holds that frame and
\* lpc_buf_ptr = frame_size.  Stated for calls that stay within the buffers.
C28_LastFrameCached ==
    [][(/\ enc_state' = "live"
        /\ enc_calls' /= enc_calls
        /\ m_impl'.fault = "none"
        /\ CallFrames /= <<>>)
       => /\ CallFrames[Len(CallFrames)].last_in_seq
          /\ m_impl'.lpc_buf_ptr = frame_size(m_impl.rate)
          /\ TakeRuns(m_impl'.lpc_buf, frame_size(m_impl.rate) * m_impl.channels)
               = CallFrames[Len(CallFrames)].pcm]_vars

\* the floats of the staging buffer behind its first frame
BehindFrame == DropRuns(m_impl.buf, frame_size(m_impl.rate) * m_impl.channels)

\* C29: for any sequence of encode calls on float samples, of any sizes, only
\* min(frame_size - buf_ptr, remaining) samples are copied into the staging
\* buffer: no float at or behind index frame_size * channels of buf is ever
\* written, nothing is written past buf, and buf_ptr <= frame_size.
C29_StagingWithinFrame ==
    enc_state /= "idle" =>
       /\ m_impl.buf_ptr <= frame_size(m_impl.rate)
       /\ frame_size(m_impl.rate) * m_impl.channels <= RAW_BUF_SIZE
       /\ \A i \in 1..Len(BehindFrame) : BehindFrame[i].k = "uninit"
       /\ m_impl.fault \notin {"buf overrun", "member overrun"}

\* the floats of a frame behind its last input sample
RECURSIVE TrailingSynth(_)
TrailingSynth(r) ==
    IF r = <<>> \/ r[Len(r)].k = "real" THEN 0
    ELSE r[Len(r)].n + TrailingSynth(SubSeq(r, 1, Len(r) - 1))

\* the frames the destructor appended behind the lead-in frame (which it
\* writes first when nothing was encoded before)
DestroyFrames == SelectSeq(CallFrames, LAMBDA f : ~f.lead_in)

\* the floats of the destructor's frames behind the last input sample
DestroyPadding ==
    IF Len(DestroyFrames) = 2
    THEN TrailingSynth(DestroyFrames[1].pcm) + TrailingSynth(DestroyFrames[2].pcm)
    ELSE TrailingSynth(DestroyFrames[1].pcm)

\* C30: on destruction the flushing frame is followed by one extra frame, all
\* of it synthesised, if and only if frame_size - buf_ptr < pre_skip; either
\* way at least pre_skip synthesised samples are encoded behind the last
\* input sample.
C30_ExtraFrame ==
    [][(enc_state = "live" /\ enc_state' = "destroyed")
       => /\ Len(DestroyFrames) \in {1, 2}
          /\ DestroyFrames[1].n_real = m_impl.buf_ptr
          /\ (Len(DestroyFrames) = 2)
               <=> (frame_size(m_impl.rate) - m_impl.buf_ptr < pre_skip(m_impl.rate))
          /\ Len(DestroyFrames) = 2 =>
                /\ DestroyFrames[2].n_real = 0
                /\ TrailingSynth(DestroyFrames[2].pcm)
                     = frame_size(m_impl.rate) * m_impl.channels
          /\ DestroyPadding >= pre_skip(m_impl.rate) * m_impl.channels]_vars

\* an encoder destroyed with so many samples staged that the extra frame was
\* written behind the flushing frame
C30_Witness ==
    /\ enc_state = "destroyed"
    /\ m_impl.fault = "none"
    /\ frame_size(m_impl.rate) - m_impl.buf_ptr < pre_skip(m_impl.rate)
    /\ Len(m_impl.frames) >= 3
    /\ m_impl.frames[Len(m_impl.frames)].n_real = 0
    /\ m_impl.frames[Len(m_impl.frames)].last
    /\ m_impl.frames[Len(m_impl.frames) - 1].n_real = m_impl.buf_ptr

\* the decoder reads a call of transcode made
CallReads == SubSeq(dec_log', Len(dec_log) + 1, Len(dec_log'))

\* C31: in every call of transcode, for any decoder offset and any earlier
\* calls, the assertion read_offs() == start(idx) behind the skip loop holds,
\* and the skip loop reads only in calls entered with buf_ptr = 0.
C31_SkipLandsOnStart ==
    [][/\ fault' /= "assert read_offs() == next_idx_offs"
       /\ (\E i \in 1..Len(CallReads) : CallReads[i].loop = "skip") => buf_ptr = 0]_vars

\* the first call skipped to the start of a chunk, and a later call began
\* with the overlap kept from the chunk before it
C31_Witness ==
    /\ fault = "none"
    /\ decoder_offset > 0
    /\ Len(dec_log) >= 3
    /\ dec_log[1].loop = "skip" /\ dec_log[1].got = dec_log[1].req
    /\ Len(sink) >= 2
    /\ sink[2].kept > 0

\* a call of Encoder::encode was made in this step
EncodeCalled ==
    enc_state = "live" /\ enc_state' /= "destroyed" /\ m_impl' /= m_impl

\* C32: Encoder::encode forwards its bitrate to the Opus encoder exactly when
\* it differs from current_bitrate, the last value forwarded with success, so
\* that a call that repeats the bitrate of the call before it forwards
\* nothing; a forward that fails throws and leaves current_bitrate, and the
\* stream, as they were.
C32_BitrateIdempotent ==
    [][EncodeCalled =>
        /\ (m_impl'.forward /= "none") <=> (m_impl'.bitrate_arg /= m_impl.current_bitrate)
        /\ m_impl'.forward = "ok" =>
              /\ m_impl'.current_bitrate = m_impl'.bitrate_arg
              /\ m_impl'.n_set_bitrate = m_impl.n_set_bitrate + 1
        /\ m_impl'.forward /= "ok" =>
              /\ m_impl'.current_bitrate = m_impl.current_bitrate
              /\ m_impl'.n_set_bitrate = m_impl.n_set_bitrate
        /\ m_impl'.forward = "error" =>
              /\ m_impl'.frames = m_impl.frames
              /\ m_impl'.buf_ptr = m_impl.buf_ptr
              /\ enc_calls' = enc_calls]_vars

\* two calls with the same bitrate forwarded it once, and a third call with
\* a rejected bitrate left it in place
C32_Witness ==
    /\ enc_state = "live"
    /\ Len(enc_calls) = 2
    /\ m_impl.n_set_bitrate = 1
    /\ m_impl.forward = "error"
    /\ m_impl.bitrate_arg = BadBitrate
    /\ m_impl.current_bitrate = DefaultSettings.m_bitrate

\* C33: for every target sample i in [0, n_tar) and tap j in [0, 24) predict
\* reads tar[(i-j-1)*stride] when i-j-1 >= 0, else src[(n_src+i-j-1)*stride]
\* when that index is >= 0, else the value 0: it reads no source sample
\* outside [0, n_src) and no target sample at or behind the one it computes,
\* also for n_src = 0 and n_src < 24.
C33_PredictReads ==
    (lpc /= <<>> /\ lpc.pc = "predicted") =>
       /\ \A i \in 0..(lpc.n_tar - 1), j \in 0..(LPC_ORDER - 1) :
             \E r \in lpc.reads : r.i = i /\ r.j = j
       /\ \A r \in lpc.reads :
             /\ r.a.arr = "tar" <=> r.i - r.j - 1 >= 0
             /\ r.a.arr = "src" <=> (r.i - r.j - 1 < 0 /\ lpc.n_src + r.i - r.j - 1 >= 0)
             /\ r.a.arr = "tar" => r.a.idx = r.i - r.j - 1 /\ r.a.idx < r.i
             /\ r.a.arr = "src" =>
                   /\ r.a.idx = lpc.n_src + r.i - r.j - 1
                   /\ r.a.idx >= 0 /\ r.a.idx < lpc.n_src
                   /\ r.a.idx * lpc.stride + 1 \in DOMAIN lpc.src

\* a prediction from fewer samples than taps that read the target, the
\* source and the value 0
C33_Witness ==
    /\ lpc /= <<>> /\ lpc.pc = "predicted"
    /\ lpc.n_src = 2 /\ lpc.n_tar = 3 /\ lpc.stride = 2
    /\ \E r \in lpc.reads : r.a.arr = "tar"
    /\ \E r \in lpc.reads : r.a.arr = "src"
    /\ \E r \in lpc.reads : r.a.arr = "zero"

\* C34: for every chunk emitted by transcode, and any decoder offset, CF_IN
\* + CF_OUT is at most the number of samples passed to the encoder for the
\* chunk: the declared cross-fade regions lie inside the chunk's input samples.
C34_CrossfadeInside ==
    \A k \in 1..Len(sink) :
       Tag(sink[k], "CF_IN") + Tag(sink[k], "CF_OUT") <= sink[k].n

\* the last n samples of a chunk, and its first n
ChunkTail(c, n) == SliceRuns(c.pcm, (c.n - n) * C, c.n * C)
ChunkHead(c, n) == TakeRuns(c.pcm, n * C)

\* chunk k was emitted with CF_OUT = O and chunk k + 1 takes it up: it was
\* emitted by the next call, carries CF_IN = O and begins with the O samples
\* kept from chunk k
Matched(k) ==
    k < Len(sink) =>
       /\ sink[k + 1].idx = sink[k].idx + 1
       /\ Tag(sink[k + 1], "CF_IN") = O
       /\ sink[k + 1].kept = O
       /\ ChunkHead(sink[k + 1], O) = ChunkTail(sink[k], O)

\* C35: whenever transcode emits a chunk with CF_OUT = O >= 1, the next call
\* of transcode returns true and emits a chunk with CF_IN = O whose first O
\* samples are the overlap kept, also when the input ends at the end of the
\* chunk: no call that follows such a chunk returns false.
C35_OverlapMatched ==
    (O >= 1 /\ fault = "none") =>
       /\ \A k \in 1..Len(sink) : Tag(sink[k], "CF_OUT") = O => Matched(k)
       /\ (Len(sink) >= 1 /\ Tag(sink[Len(sink)], "CF_OUT") = O) => ret[Len(ret)] = TRUE

\* the input ended at the end of the first chunk, and the second chunk holds
\* the overlap alone
C35_Witness ==
    /\ O >= 1 /\ L >= 1 /\ fault = "none"
    /\ Len(sink) = 2
    /\ Tag(sink[1], "CF_OUT") = O
    /\ N = ChunkEnd(sink[1].idx)
    /\ sink[2].got = 0 /\ sink[2].n = O
    /\ Tag(sink[2], "CF_IN") = O /\ Tag(sink[2], "CF_OUT") = 0
    /\ ret = <<TRUE, TRUE>>

\* the extra frame the destructor owes for N samples fed
ExtraFor(n, rate) ==
    IF frame_size(rate) - (n % frame_size(rate)) < pre_skip(rate) THEN 1 ELSE 0

LastFed(n) == RealRuns(FedSamples - n, n, m_impl.channels)

\* C37: when the encoder has received at least frame_size / 2 samples before
\* it is destroyed, the lead-out of the flushing frame is extrapolated from a
\* source window of exactly frame_size / 2 samples, the most recent input
\* samples; also when N is a multiple of frame_size.  Stated for encoders
\* whose calls stayed within the buffers.
C37_LeadOutWindow ==
    [][(/\ enc_state = "live" /\ enc_state' = "destroyed"
        /\ m_impl.fault = "none"
        /\ FedSamples >= frame_size(m_impl.rate) \div 2)
       => Norm(DestroyFrames[1].window) = LastFed(frame_size(m_impl.rate) \div 2)]_vars

C39_WritesInside ==
    (ext /= <<>> /\ ext.pc = "done" /\ ext.valid < ext.buf_len) =>
       \A k \in ext.written \cup ext.oob : k >= 0 /\ k < ext.buf_len * ext.channels

\* the encode_frame invocations of an encoder: granule and last_in_seq flag
Invocations(e) ==
    [i \in 1..Len(e.frames) |->
        [granule |-> e.frames[i].granule, last_in_seq |-> e.frames[i].last_in_seq]]

\* C40: for the same sequence of encode call sizes the float overload and
\* the int16 overload of Encoder::encode lead to the same sequence of
\* encode_frame invocations: the same number of frames, the same granules
\* and the same last_in_seq flag on each frame.  Stated for call sequences
\* on which the float overload stays within its buffers.
C40_OverloadsAgree ==
    (enc_state \in {"live", "destroyed"} /\ m_impl16 /= <<>> /\ m_impl.fault = "none") =>
       /\ Len(m_impl.frames) = Len(m_impl16.frames)
       /\ Invocations(m_impl) = Invocations(m_impl16)

====
